---- MODULE Spec2Model ----
(***************************************************************************)
(* The wishengine Telegram bot (src/bot.py): the reply handler             *)
(* answer_if_user_responds_to_claude and the /fetch command handler.       *)
(*                                                                         *)
(* Handlers are asyncio coroutines: the code between two awaits runs       *)
(* atomically, and other handlers may run while one is suspended at an     *)
(* await.  Each action below is one such atomic segment.  Every call a     *)
(* handler makes on a collaborator (Parser, the Telegram message, the API  *)
(* client, the logger) is appended to the handler's call record.           *)
(*                                                                         *)
(* Texts are sequences of one-character strings.                           *)
(***************************************************************************)
EXTENDS Integers, Sequences, FiniteSets, TLC

\* Number of reply events handled concurrently.
NumHandlers == 2
\* Longest record sequence the store returns to one get_messages call.
MaxFetched == 2

Handlers == 1..NumHandlers

(***************************************************************************)
(* states.py (BotStates) and parser.py (Parser) are imported by bot.py but *)
(* are not part of the available source; they follow the specification.    *)
(***************************************************************************)
BotStates == {"POSITIVE", "NEGATIVE", "UNKNOWN"}

\* BotStates.X.value: the canonical token of a state.
BotStatesValue(s) ==
    CASE s = "POSITIVE" -> "positive"
      [] s = "NEGATIVE" -> "negative"
      [] OTHER          -> "unknown"

\* str(member) of an Enum member: the qualified member name, not its value.
EnumStr(s) ==
    CASE s = "POSITIVE" -> "BotStates.POSITIVE"
      [] s = "NEGATIVE" -> "BotStates.NEGATIVE"
      [] OTHER          -> "BotStates.UNKNOWN"

RECURSIVE LStrip(_)
LStrip(s) == IF s # <<>> /\ Head(s) = " " THEN LStrip(Tail(s)) ELSE s

RECURSIVE RStrip(_)
RStrip(s) ==
    IF s # <<>> /\ s[Len(s)] = " " THEN RStrip(SubSeq(s, 1, Len(s) - 1)) ELSE s

Strip(s) == RStrip(LStrip(s))

LowerChar(c) == IF c = "Y" THEN "y" ELSE IF c = "N" THEN "n" ELSE c

Lower(s) == [i \in 1..Len(s) |-> LowerChar(s[i])]

\* Normalization happens before pattern matching.
Normalize(reply) == Lower(Strip(reply))

Classify(clean) ==
    IF clean = <<"y">> THEN "POSITIVE"
    ELSE IF clean = <<"n">> THEN "NEGATIVE"
    ELSE "UNKNOWN"

\* The fields of a Parser object after process(prompt, reply).
ParserProcess(prompt, reply) ==
    LET clean == Normalize(reply)
        st    == Classify(clean)
    IN  [state      |-> st,
         text_clean |-> clean,
         text       |-> IF st = "POSITIVE" THEN <<"+">>
                        ELSE IF st = "NEGATIVE" THEN <<"-">>
                        ELSE <<>>]

\* The fields of a freshly constructed Parser.
ParserNew == [state |-> "UNKNOWN", text_clean |-> <<>>, text |-> <<>>]

(***************************************************************************)
(* Inbound updates.                                                        *)
(***************************************************************************)
Prompt == <<"q">>

Replies ==
    { <<>>, <<" ">>, <<"y">>, <<" ", "Y">>, <<"n">>, <<"x">> }

NoUpdate == [kind |-> "none", prompt |-> <<>>, text |-> <<>>]

\* update.message is None, or message.reply_to_message is None.
IgnoredUpdates ==
    { [kind |-> "no_message", prompt |-> <<>>, text |-> <<>>],
      [kind |-> "not_a_reply", prompt |-> <<>>, text |-> <<"y">>] }

ReplyUpdates == { [kind |-> "reply", prompt |-> Prompt, text |-> r] : r \in Replies }

(***************************************************************************)
(* Outcomes of api.store_message, as the handler can observe them: a       *)
(* truthy status, a falsy status, or an exception, whose args tuple may be *)
(* empty.                                                                   *)
(***************************************************************************)
StoreMessageOutcomes == {"true", "falsy", "raise_args", "raise_noargs"}

VARIABLES pc, update, parsers, calls, exc, interleaved,
          fpc, messages_yes, messages_no, fcalls, fsent, fexc

vars == <<pc, update, parsers, calls, exc, interleaved,
          fpc, messages_yes, messages_no, fcalls, fsent, fexc>>

replyVars == <<pc, update, parsers, calls, exc, interleaved>>
fetchVars == <<fpc, messages_yes, messages_no, fcalls, fsent, fexc>>

\* One entry of a handler's call record: the collaborator operation invoked
\* and its arguments.
Call(op, a) == [op |-> op, a |-> a]

(***************************************************************************)
(* answer_if_user_responds_to_claude                                       *)
(***************************************************************************)

\* A module-level parser shared by every invocation.
SharedParser(h) == 1

\* p = Parser(debug=DEBUG, logger=logger): each invocation constructs its
\* own Parser object; ParserOf(h) is the object invocation h holds in p.
ParserOf(h) == h

\* Persisting before responding.
BeforeAwaitStoreFirst(u, res) ==
    << Call("log_debug", "reply to prompt"),
       Call("process", <<u.prompt, u.text>>),
       Call("store_message", <<res.text_clean, EnumStr(res.state)>>),
       Call("reply_text", res.text) >>

\* The calls made from reading the prompt up to the await on reply_text;
\* res holds the parser's fields after process.  An empty response is
\* logged ("Doing nothing") and control falls through to reply_text.
BeforeAwait(u, res) ==
    << Call("log_debug", "reply to prompt"),
       Call("process", <<u.prompt, u.text>>) >>
    \o (IF res.text = <<>> THEN << Call("log_debug", "Doing nothing") >> ELSE << >>)
    \o << Call("reply_text", res.text) >>

\* e.args of the exception the try block ends with.
ExcArgs(outcome) ==
    CASE outcome = "falsy"      -> << "did not return valid status" >>
      [] outcome = "raise_args" -> << "store error" >>
      [] OTHER                  -> << >>

\* Issuing the store call again after a failure.
AfterAwaitRetry(p, outcome) ==
    LET store == Call("store_message", <<p.text_clean, EnumStr(p.state)>>)
    IN  IF outcome = "true"
        THEN [calls |-> << store, Call("log_info", "stored") >>, exc |-> "none"]
        ELSE [calls |-> << store, store, Call("log_error", "Failed to store") >>,
              exc |-> "none"]

\* The code after the await: state = str(p.get_state()), text_clean =
\* p.get_text_clean(), then the try block around api.store_message.  The
\* except clause formats e.args[0], which raises IndexError when e.args is
\* empty.
AfterAwait(p, outcome) ==
    LET store == Call("store_message", <<p.text_clean, EnumStr(p.state)>>)
    IN  IF outcome = "true"
        THEN [calls |-> << store, Call("log_info", "stored") >>, exc |-> "none"]
        ELSE IF Len(ExcArgs(outcome)) >= 1
             THEN [calls |-> << store, Call("log_error", ExcArgs(outcome)[1]) >>,
                   exc |-> "none"]
             ELSE [calls |-> << store >>, exc |-> "IndexError"]

\* The early returns: no message, or a message that is not a reply.
Ignore(h) ==
    /\ pc[h] = "idle"
    /\ \E u \in IgnoredUpdates :
          /\ update' = [update EXCEPT ![h] = u]
          /\ calls' = [calls EXCEPT ![h] = << Call("log_debug", "Ignoring") >>]
    /\ pc' = [pc EXCEPT ![h] = "done"]
    /\ UNCHANGED <<parsers, exc, interleaved>>
    /\ UNCHANGED fetchVars

\* A reply arrives: the handler runs up to the await on reply_text.
\* interleaved[g] records that another invocation ran while g was suspended
\* at its await (history only; no action reads it).
Receive(h) ==
    /\ pc[h] = "idle"
    /\ \E u \in ReplyUpdates :
          /\ update' = [update EXCEPT ![h] = u]
          /\ parsers' = [parsers EXCEPT ![ParserOf(h)] = ParserProcess(u.prompt, u.text)]
          /\ calls' = [calls EXCEPT ![h] = BeforeAwait(u, parsers'[ParserOf(h)])]
    /\ pc' = [pc EXCEPT ![h] = "await_reply"]
    /\ interleaved' = [g \in Handlers |->
                          interleaved[g] \/ (g # h /\ pc[g] = "await_reply")]
    /\ UNCHANGED exc
    /\ UNCHANGED fetchVars

\* reply_text completes and the handler runs to its end.
ReplyTextReturns(h) ==
    /\ pc[h] = "await_reply"
    /\ \E outcome \in StoreMessageOutcomes :
          LET r == AfterAwait(parsers[ParserOf(h)], outcome)
          IN  /\ calls' = [calls EXCEPT
                    ![h] = @ \o << Call("reply_text_done", "") >> \o r.calls]
              /\ exc' = [exc EXCEPT ![h] = r.exc]
              /\ pc' = [pc EXCEPT ![h] = IF r.exc = "none" THEN "done" ELSE "raised"]
    /\ UNCHANGED <<update, parsers, interleaved>>
    /\ UNCHANGED fetchVars

\* reply_text raises (the transport rejects or fails to deliver the
\* message): the exception leaves the handler.
ReplyTextRaises(h) ==
    /\ pc[h] = "await_reply"
    /\ exc' = [exc EXCEPT ![h] = "TelegramError"]
    /\ pc' = [pc EXCEPT ![h] = "raised"]
    /\ UNCHANGED <<update, parsers, calls, interleaved>>
    /\ UNCHANGED fetchVars

InitReply ==
    /\ pc = [h \in Handlers |-> "idle"]
    /\ update = [h \in Handlers |-> NoUpdate]
    /\ parsers = [h \in Handlers |-> ParserNew]
    /\ calls = [h \in Handlers |-> << >>]
    /\ exc = [h \in Handlers |-> "none"]
    /\ interleaved = [h \in Handlers |-> FALSE]

InitFetch ==
    /\ fpc = "idle"
    /\ messages_yes = << >>
    /\ messages_no = << >>
    /\ fcalls = << >>
    /\ fsent = [kind |-> "none", lines |-> << >>]
    /\ fexc = "none"

Init == InitReply /\ InitFetch

(***************************************************************************)
(* fetch                                                                   *)
(***************************************************************************)

\* Records the store may return: dicts with a 'text' field, a dict without
\* one, a value that is not a dict, and a mapping with a 'text' field whose
\* type is not dict itself.
RecordShapes ==
    { [type |-> "dict",  has_text |-> TRUE,  text |-> "a"],
      [type |-> "dict",  has_text |-> TRUE,  text |-> "b"],
      [type |-> "dict",  has_text |-> FALSE, text |-> ""],
      [type |-> "str",   has_text |-> FALSE, text |-> ""],
      [type |-> "other", has_text |-> TRUE,  text |-> "a"] }

SeqsUpTo(S, n) == UNION { [1..k -> S] : k \in 0..n }

\* The 'state' filter of the get_messages call made for state s.
FetchStateParam(s) == BotStatesValue(s)

\* (type(m) is dict) and ('text' in m.keys())
IsDisplayable(m) == m.type = "dict" /\ m.has_text

\* The NEGATIVE results listed first.
MessagesListNegativeFirst(yes, no) ==
    << [state |-> BotStatesValue("NEGATIVE"), messages |-> no],
       [state |-> BotStatesValue("POSITIVE"), messages |-> yes] >>

MessagesList(yes, no) ==
    << [state |-> BotStatesValue("POSITIVE"), messages |-> yes],
       [state |-> BotStatesValue("NEGATIVE"), messages |-> no] >>

\* for i, m in enumerate(messages): append the entry or log the record.
RECURSIVE InnerLoop(_, _, _, _)
InnerLoop(state, messages, i, acc) ==
    IF i > Len(messages) THEN acc
    ELSE InnerLoop(state, messages, i + 1,
            IF IsDisplayable(messages[i])
            THEN [acc EXCEPT !.print_me =
                    Append(@, [state |-> state, text |-> messages[i].text])]
            ELSE [acc EXCEPT !.log =
                    Append(@, Call("log_error", <<"Skipping", state, i - 1>>))])

\* for state, messages in messages_list
RECURSIVE OuterLoop(_, _, _)
OuterLoop(list, k, acc) ==
    IF k > Len(list) THEN acc
    ELSE OuterLoop(list, k + 1,
                   InnerLoop(list[k].state, list[k].messages, 1, acc))

\* lines = [f'Message #{i}:\n{m}' for i, m in enumerate(print_me)]
Lines(print_me) == [i \in 1..Len(print_me) |-> [n |-> i - 1, entry |-> print_me[i]]]

\* The body of fetch once both get_messages calls have returned: the log
\* calls it makes and the message it hands to reply_text.
FetchBody(yes, no) ==
    LET list == MessagesList(yes, no)
    IN  IF Len(list) = 0
        THEN [log |-> << >>, sent |-> [kind |-> "notice", lines |-> << >>]]
        ELSE LET r == OuterLoop(list, 1, [print_me |-> << >>, log |-> << >>])
             IN  [log |-> r.log,
                  sent |-> [kind |-> "listing", lines |-> Lines(r.print_me)]]

GetMessagesCall(s) == Call("get_messages", <<1, FetchStateParam(s)>>)

\* Both get_messages calls return; fetch runs up to the await on reply_text.
FetchReturned ==
    /\ fpc = "idle"
    /\ \E yes \in SeqsUpTo(RecordShapes, MaxFetched),
          no \in SeqsUpTo(RecordShapes, MaxFetched) :
          LET r == FetchBody(yes, no)
          IN  /\ messages_yes' = yes
              /\ messages_no' = no
              /\ fsent' = r.sent
              /\ fcalls' = << GetMessagesCall("POSITIVE"), GetMessagesCall("NEGATIVE") >>
                           \o r.log \o << Call("reply_text", r.sent) >>
    /\ fpc' = "await_reply"
    /\ UNCHANGED fexc
    /\ UNCHANGED replyVars

\* The first get_messages call raises: nothing in fetch catches it.
FetchFirstCallRaises ==
    /\ fpc = "idle"
    /\ fcalls' = << GetMessagesCall("POSITIVE"), Call("get_messages_raised", "StoreError") >>
    /\ fexc' = "StoreError"
    /\ fpc' = "raised"
    /\ UNCHANGED <<messages_yes, messages_no, fsent>>
    /\ UNCHANGED replyVars

\* The second get_messages call raises: nothing in fetch catches it.
FetchSecondCallRaises ==
    /\ fpc = "idle"
    /\ \E yes \in SeqsUpTo(RecordShapes, MaxFetched) : messages_yes' = yes
    /\ fcalls' = << GetMessagesCall("POSITIVE"), GetMessagesCall("NEGATIVE"),
                    Call("get_messages_raised", "StoreError") >>
    /\ fexc' = "StoreError"
    /\ fpc' = "raised"
    /\ UNCHANGED <<messages_no, fsent>>
    /\ UNCHANGED replyVars

FetchReplyReturns ==
    /\ fpc = "await_reply"
    /\ fcalls' = Append(fcalls, Call("reply_text_done", ""))
    /\ fpc' = "done"
    /\ UNCHANGED <<messages_yes, messages_no, fsent, fexc>>
    /\ UNCHANGED replyVars

FetchReplyRaises ==
    /\ fpc = "await_reply"
    /\ fexc' = "TelegramError"
    /\ fpc' = "raised"
    /\ UNCHANGED <<messages_yes, messages_no, fsent, fcalls>>
    /\ UNCHANGED replyVars

NextFetch ==
    \/ FetchReturned
    \/ FetchFirstCallRaises
    \/ FetchSecondCallRaises
    \/ FetchReplyReturns
    \/ FetchReplyRaises

FetchSpec == Init /\ [][NextFetch]_vars

Next ==
    \E h \in Handlers :
        \/ Ignore(h)
        \/ Receive(h)
        \/ ReplyTextReturns(h)
        \/ ReplyTextRaises(h)

Spec == Init /\ [][Next]_vars

(***************************************************************************)
(* Properties of the reply handler (checked under Spec)                    *)
(***************************************************************************)

IsReplyEvent(h) == update[h].kind = "reply"

\* What this invocation's own Parser.process call yields on its own update.
OwnResult(h) == ParserProcess(update[h].prompt, update[h].text)

CallIndexes(cs, op) == {i \in 1..Len(cs) : cs[i].op = op}

HasCall(cs, op) == CallIndexes(cs, op) # {}

CountCalls(cs, op) == Cardinality(CallIndexes(cs, op))

\* C1: in every invocation of the reply handler, reply_text has completed
\* before api.store_message is attempted, whatever the store call then does.
C1_ResponseBeforeStore ==
    \A h \in Handlers :
        \A i \in CallIndexes(calls[h], "store_message") :
            \E j \in CallIndexes(calls[h], "reply_text_done") : j < i

\* A store call that raised out of the handler, made after the response
\* was delivered.
C1_Witness ==
    \E h \in Handlers :
        /\ IsReplyEvent(h)
        /\ exc[h] = "IndexError"
        /\ HasCall(calls[h], "store_message")
        /\ HasCall(calls[h], "reply_text_done")

\* C2: every reply event causes exactly one Parser.process call, followed by
\* at most one api.store_message call; a failed store is not re-issued.
C2_OneProcessAtMostOneStore ==
    \A h \in Handlers :
        IsReplyEvent(h) =>
            /\ CountCalls(calls[h], "process") = 1
            /\ CountCalls(calls[h], "store_message") <= 1
            /\ \A i \in CallIndexes(calls[h], "store_message") :
                  \E j \in CallIndexes(calls[h], "process") : j < i

\* A finished invocation whose single store call failed and was logged.
C2_Witness ==
    \E h \in Handlers :
        /\ IsReplyEvent(h)
        /\ pc[h] = "done"
        /\ HasCall(calls[h], "log_error")
        /\ CountCalls(calls[h], "store_message") = 1

\* C3: when Parser.get_text() returns an empty response, the handler does
\* not call reply_text for that event.
C3_EmptyResponseSendsNothing ==
    \A h \in Handlers :
        (IsReplyEvent(h) /\ OwnResult(h).text = << >>) =>
            ~HasCall(calls[h], "reply_text")

\* C4: when the reply is empty or all-whitespace, api.store_message is not
\* called for that event.
C4_BlankReplyStoresNothing ==
    \A h \in Handlers :
        (IsReplyEvent(h) /\ Strip(update[h].text) = << >>) =>
            ~HasCall(calls[h], "store_message")

\* C5: however api.store_message fails, the failure is only logged: the
\* handler finishes normally, no exception leaves it, and nothing more is
\* sent to the user.
C5_StoreFailureOnlyLogged ==
    \A h \in Handlers :
        (HasCall(calls[h], "store_message") /\ ~HasCall(calls[h], "log_info")) =>
            /\ pc[h] = "done"
            /\ exc[h] = "none"
            /\ HasCall(calls[h], "log_error")
            /\ \A i \in CallIndexes(calls[h], "store_message") :
                  \A j \in CallIndexes(calls[h], "reply_text") : j < i

\* C6: for a reply classified POSITIVE or NEGATIVE, the state token passed
\* to api.store_message is the token /fetch passes as the 'state' filter
\* for that state.
C6_StoreTokenIsFetchToken ==
    \A h \in Handlers :
        \A i \in CallIndexes(calls[h], "store_message") :
            OwnResult(h).state \in {"POSITIVE", "NEGATIVE"} =>
                calls[h][i].a[2] = FetchStateParam(OwnResult(h).state)

\* C9: whatever the interleaving, the response a handler sends and the
\* text and state it stores are those of its own Parser.process call on
\* its own (prompt, reply).
C9_OwnClassification ==
    \A h \in Handlers :
        /\ \A i \in CallIndexes(calls[h], "reply_text") :
              calls[h][i].a = OwnResult(h).text
        /\ \A i \in CallIndexes(calls[h], "store_message") :
              /\ calls[h][i].a[1] = OwnResult(h).text_clean
              /\ calls[h][i].a[2] = EnumStr(OwnResult(h).state)

\* A handler that stored after another handler, classifying differently,
\* ran Parser.process while it was suspended at the await.
C9_Witness ==
    \E h, g \in Handlers :
        /\ h # g
        /\ interleaved[h]
        /\ HasCall(calls[h], "store_message")
        /\ IsReplyEvent(g)
        /\ OwnResult(g) # OwnResult(h)

(***************************************************************************)
(* Properties of /fetch (checked under FetchSpec)                          *)
(***************************************************************************)

\* The records the store returned, in the order returned, POSITIVE results
\* first, each tagged with the state it was queried under.
Returned ==
    [i \in 1..Len(messages_yes) |->
        [state |-> BotStatesValue("POSITIVE"), rec |-> messages_yes[i]]]
    \o [i \in 1..Len(messages_no) |->
        [state |-> BotStatesValue("NEGATIVE"), rec |-> messages_no[i]]]

WellFormed == {i \in 1..Len(Returned) :
                  Returned[i].rec.type = "dict" /\ Returned[i].rec.has_text}

Rank(i) == Cardinality({j \in WellFormed : j <= i})

\* C7: the displayed entries are exactly the returned records that are
\* dicts with a 'text' field, each once, in the order returned (POSITIVE
\* results before NEGATIVE); a malformed record is skipped on its own.
C7_DisplayedAreWellFormedInOrder ==
    HasCall(fcalls, "reply_text") =>
        /\ fsent.kind = "listing"
        /\ Len(fsent.lines) = Cardinality(WellFormed)
        /\ \A i \in WellFormed :
              fsent.lines[Rank(i)] =
                  [n |-> Rank(i) - 1,
                   entry |-> [state |-> Returned[i].state,
                              text |-> Returned[i].rec.text]]
        /\ CountCalls(fcalls, "log_error") = Len(Returned) - Cardinality(WellFormed)

\* Both result sequences hold a malformed record followed by a well-formed
\* one.
C7_Witness ==
    /\ HasCall(fcalls, "reply_text")
    /\ Len(messages_yes) = 2 /\ Len(messages_no) = 2
    /\ ~IsDisplayable(messages_yes[1]) /\ IsDisplayable(messages_yes[2])
    /\ ~IsDisplayable(messages_no[1]) /\ IsDisplayable(messages_no[2])
    /\ messages_yes[2].text # messages_no[2].text

\* C8: when a get_messages call fails with a store error, fetch logs it
\* and completes without the exception leaving the handler.
C8_StoreErrorRecovered ==
    HasCall(fcalls, "get_messages_raised") =>
        /\ fexc = "none"
        /\ HasCall(fcalls, "log_error")

\* C10: when both queries return no messages, fetch replies with the
\* 'No messages found' notice instead of an empty message.
C10_NoMessagesNotice ==
    (HasCall(fcalls, "reply_text") /\ messages_yes = << >> /\ messages_no = << >>) =>
        fsent.kind = "notice"

====
